---- MODULE Spec2Model ----
(***************************************************************************)
(* Rate limiter and send workflow of the TikTok DM sender                  *)
(* (backend/platforms/tiktok/tiktok_dm_sender_optimized.py).               *)
(*                                                                         *)
(* Two TikTokDMSender instances (operating-system processes) share the     *)
(* JSON file RATE_LIMIT_FILE.  Each instance reads the file once, in its   *)
(* constructor, and afterwards works on its own in-memory copy, which it   *)
(* writes back whole on every _record_message_sent and _enter_cooldown.    *)
(*                                                                         *)
(* Time is the wall clock in whole hours since midnight of day 0.  The     *)
(* code stores datetime.now().isoformat() strings and compares them as     *)
(* strings; for naive datetimes that order is the chronological order, so  *)
(* a timestamp is modelled by the hour at which it was taken.  Delays      *)
(* shorter than an hour (the 5-15 minute pause after a send, the 30-60     *)
(* minute rest) are places where the clock may or may not move on.         *)
(*                                                                         *)
(* The module also holds the other services of the backend, each with its  *)
(* own variable and specification: the API gateway in front of the TikTok  *)
(* bridge (api/v1/tiktok.py), thread posting of the Twitter bridge         *)
(* (twitter_bridge_server.py), the operations of twitter_operations.py and *)
(* send_dm of the Instagram senders.                                       *)
(***************************************************************************)
EXTENDS Integers, Sequences, FiniteSets, TLC

(***************************************************************************)
(* Configuration of the module under study, in hours.                      *)
(***************************************************************************)
MAX_DM_PER_HOUR == 3
MAX_DM_PER_DAY == 20
REST_AFTER_N_MESSAGES == 3
COOLDOWN_HOURS == 24
WORK_HOURS == <<8, 22>>
OneHour == 1
OneDay == 24

(***************************************************************************)
(* Bounds of the model.                                                    *)
(***************************************************************************)
\* hours the clock may advance one at a time within a day
MaxHourTicks == 2
\* whole days the clock may jump
MaxDayJumps == 1
\* process restarts (re-construction of a sender) in one behaviour
MaxRestarts == 1

Senders == {1, 2}
\* the sender of single-instance operation
Solo == CHOOSE p \in Senders : \A q \in Senders : p <= q
\* the behaviour starts two hours before the end of the working window
StartClock == WORK_HOURS[2] - 2

Signals == {"observed", "absent", "threw"}

\* The selector lists of the page operations, by position in the list.
follow_selectors == 1..3
message_selectors == 1..4
input_selectors == 1..4
send_selectors == 1..5
\* tiktok_bridge_server.py: like_video and follow_user
like_selectors == 1..4
follow_selectors_bridge == 1..3
max_retries == 3

Operations == {"send_dm", "like_video", "follow_user"}
\* What trying one candidate can come to: wait_for_selector (or
\* query_selector_all) throws or times out; the element is there but
\* is_visible() is false (for the send buttons: none is visible and
\* enabled); the element is visible and the click returns; the element is
\* visible and the click throws.  "following": the visible follow button
\* already reads Following.  "visible": the input resolved and is visible.
ClickResults == {"throws", "hidden", "clicked", "click_throws"}
FollowResults == ClickResults \cup {"following"}
InputResults == {"throws", "hidden", "visible"}
SearchResults == {"goto_throws", "search_throws", "search_none",
                  "fill_throws", "no_results", "clicked", "click_throws"}
\* the Instagram send_dm variants: the search workflow of
\* instagram_dm_sender.py, the profile workflow of
\* instagram_dm_sender_optimized.py and send_dm of instagram_bridge_server.py
Workflows == {"search", "profile", "bridge"}
\* what one message-button candidate does: the wait throws, the element is
\* hidden, the click throws, or the click returns and the message dialog is
\* then closed or open
MessageResults == {"throws", "hidden", "click_throws", "clicked_closed",
                   "clicked_opened"}
\* what one send candidate does: the lookup throws, no usable button
\* (disabled, or none visible), the click returns, or the click throws
SendResults == {"throws", "unusable", "clicked", "click_throws"}
\* the longest thread of a /post request, and what post_single_tweet gives
\* back: a tweet id read from the page, the placeholder, or None
MaxTweets == 3
PostResults == {"id", "unknown", "None"}
\* the operations of TwitterOperations
TwitterOps == {"like_tweet", "unlike_tweet", "retweet", "unretweet",
               "delete_tweet", "get_tweet", "get_user_by_username",
               "follow_user", "unfollow_user", "get_user_tweets",
               "search_tweets"}
\* the gateway endpoints modelled, and the strings a request field takes
Endpoints == {"videos/comment", "videos/like", "dm/send"}
Strings == {"", "a", "b"}
FlowOutcomes == {"setup_failed", "throw", "no_search_input", "no_input",
                 "not_sent", "sent"}

VARIABLES
  clock,        \* datetime.now(), in hours
  file,         \* content of RATE_LIMIT_FILE: <<>> when absent, else <<dict>>
  rate_limits,  \* self.rate_limits of each sender
  messages_sent_this_session,   \* self.messages_sent_this_session
  browser,      \* "none": no playwright; "partial": playwright but no page;
                \* "ready": self.page is set
  pc,           \* position of each sender inside send_dm
  chk,          \* history: the last _check_rate_limits call of each sender
  call,         \* history: what the current / last send_dm call did
  hist,         \* history of the instance since its construction
  sent,         \* history: the times of all recorded sends, any sender
  restarts,     \* number of restarts so far
  wf,           \* the local variables and position of one page operation
  trace,        \* history: the steps of that operation, in the order taken
  gateway,      \* one request through the API gateway and the bridge server
  thread,       \* one run of post_tweets_task of the Twitter bridge
  igdm,         \* one send_dm call of an Instagram DM sender
  twop          \* one TwitterOperations operation and what it acquired

\* the rate limiter and the coarse send_dm; the selector-level workflow
limiterVars == <<clock, file, rate_limits, messages_sent_this_session,
                 browser, pc, chk, call, hist, sent, restarts>>
flowVars == <<wf, trace>>
\* the other services of the backend
serviceVars == <<gateway, thread, igdm, twop>>
vars == <<clock, file, rate_limits, messages_sent_this_session, browser, pc,
          chk, call, hist, sent, restarts, wf, trace, gateway, thread, igdm,
          twop>>

(***************************************************************************)
(* The persisted dictionary.                                               *)
(***************************************************************************)
EmptyRateLimits ==
  [hourly_messages |-> <<>>, daily_messages |-> <<>>,
   last_cooldown |-> <<>>, total_sent |-> 0]

\* the cooldown start is not read back
LoadRateLimitsNoCooldown(f) ==
  IF f = <<>> THEN EmptyRateLimits
  ELSE [hourly_messages |-> f[1].hourly_messages,
        daily_messages |-> f[1].daily_messages,
        last_cooldown |-> <<>>,
        total_sent |-> f[1].total_sent]

\* _load_rate_limits: the default dictionary when the file does not exist,
\* else the JSON object read back from it
LoadRateLimits(f) ==
  IF f = <<>> THEN EmptyRateLimits
  ELSE [hourly_messages |-> f[1].hourly_messages,
        daily_messages |-> f[1].daily_messages,
        last_cooldown |-> f[1].last_cooldown,
        total_sent |-> f[1].total_sent]

\* _save_rate_limits: json.dump of the whole dictionary, replacing the file
SaveRateLimits(rl) ==
  << [hourly_messages |-> rl.hourly_messages,
      daily_messages |-> rl.daily_messages,
      last_cooldown |-> rl.last_cooldown,
      total_sent |-> rl.total_sent] >>

(***************************************************************************)
(* _check_rate_limits                                                      *)
(***************************************************************************)
\* the closing hour still counts as working time
IsWithinWorkHoursInclusive(now) ==
  WORK_HOURS[1] <= now % 24 /\ now % 24 <= WORK_HOURS[2]

\* _is_within_work_hours
IsWithinWorkHours(now) ==
  WORK_HOURS[1] <= now % 24 /\ now % 24 < WORK_HOURS[2]

\* a timestamp exactly at the cutoff is kept
PruneInclusive(list, cutoff) == SelectSeq(list, LAMBDA ts : ts >= cutoff)

\* [ts for ts in list if ts > cutoff]
Prune(list, cutoff) == SelectSeq(list, LAMBDA ts : ts > cutoff)

CooldownEnd(rl) == rl.last_cooldown[1] + COOLDOWN_HOURS

\* the cooldown still runs at the instant it should end
InCooldownInclusive(rl, now) ==
  rl.last_cooldown # <<>> /\ now <= CooldownEnd(rl)

\* the cooldown gate lets every call through
InCooldownNever(rl, now) == FALSE

InCooldown(rl, now) == rl.last_cooldown # <<>> /\ now < CooldownEnd(rl)

\* the first batch is never followed by a rest
NeedsRestLate(session) ==
  session > REST_AFTER_N_MESSAGES /\ session % REST_AFTER_N_MESSAGES = 0

NeedsRest(session) ==
  session > 0 /\ session % REST_AFTER_N_MESSAGES = 0

Verdict(ok, why, rem, rl) ==
  [allowed |-> ok, reason |-> why, remaining |-> rem, rl |-> rl]

\* the caps deny only when exceeded
CheckRateLimitsOverCap(rl, session, now) ==
  IF InCooldown(rl, now)
  THEN Verdict(FALSE, "cooldown", CooldownEnd(rl) - now, rl)
  ELSE IF ~IsWithinWorkHours(now)
  THEN Verdict(FALSE, "work_hours", 0, rl)
  ELSE LET pruned == [rl EXCEPT
                       !.hourly_messages = Prune(@, now - OneHour),
                       !.daily_messages = Prune(@, now - OneDay)]
       IN IF Len(pruned.hourly_messages) > MAX_DM_PER_HOUR
          THEN Verdict(FALSE, "hourly", 0, pruned)
          ELSE IF Len(pruned.daily_messages) > MAX_DM_PER_DAY
          THEN Verdict(FALSE, "daily", 0, pruned)
          ELSE IF NeedsRest(session)
          THEN Verdict(FALSE, "rest", 0, pruned)
          ELSE Verdict(TRUE, "ok", 0, pruned)

\* Returns (allowed, reason) and the dictionary as the call leaves it: the
\* two lists are pruned only when the cooldown and work-hour gates pass.
CheckRateLimits(rl, session, now) ==
  IF InCooldown(rl, now)
  THEN Verdict(FALSE, "cooldown", CooldownEnd(rl) - now, rl)
  ELSE IF ~IsWithinWorkHours(now)
  THEN Verdict(FALSE, "work_hours", 0, rl)
  ELSE LET pruned == [rl EXCEPT
                       !.hourly_messages = Prune(@, now - OneHour),
                       !.daily_messages = Prune(@, now - OneDay)]
       IN IF Len(pruned.hourly_messages) >= MAX_DM_PER_HOUR
          THEN Verdict(FALSE, "hourly", 0, pruned)
          ELSE IF Len(pruned.daily_messages) >= MAX_DM_PER_DAY
          THEN Verdict(FALSE, "daily", 0, pruned)
          ELSE IF NeedsRest(session)
          THEN Verdict(FALSE, "rest", 0, pruned)
          ELSE Verdict(TRUE, "ok", 0, pruned)

\* "休息" in reason: only the rest reason contains that word
IsRestReason(why) == why = "rest"

(***************************************************************************)
(* _record_message_sent and _enter_cooldown, on the dictionary             *)
(***************************************************************************)
\* the daily list is forgotten
RecordMessageSentHourlyOnly(rl, now) ==
  [rl EXCEPT !.hourly_messages = Append(@, now),
             !.total_sent = @ + 1]

RecordMessageSent(rl, now) ==
  [rl EXCEPT !.hourly_messages = Append(@, now),
             !.daily_messages = Append(@, now),
             !.total_sent = @ + 1]

\* the hourly list is emptied as well
EnterCooldownForgets(rl, now) ==
  [rl EXCEPT !.last_cooldown = <<now>>, !.hourly_messages = <<>>]

\* _enter_cooldown, on the dictionary
EnterCooldown(rl, now) == [rl EXCEPT !.last_cooldown = <<now>>]

(***************************************************************************)
(* History records                                                         *)
(***************************************************************************)
\* No page operation is running.  op, at: the operation and the position in
\* it; i: the candidate the running loop tries next; retry: the pass of the
\* input search; message_opened, message_input, sent_success: the local
\* variables of send_dm, message_input being <<>> for None and else the
\* element held: the candidate that resolved it, whether it reported itself
\* visible, and the pass; ret: what the operation returned.
\* History: loop, tried, clicks: the loop tried last, its candidates tried
\* in this pass with their results, and the candidates whose element was
\* clicked; search: how the messages-page fallback went; filled: the
\* element the message was typed into; cleared, found: the two
\* verification signals as evaluated ("none": not evaluated); verdict.
NoOperation ==
  [op |-> "none", at |-> "idle", i |-> 1, retry |-> 0,
   message_opened |-> FALSE, message_input |-> <<>>, sent_success |-> FALSE,
   ret |-> "none",
   loop |-> "none", tried |-> <<>>, clicks |-> <<>>, search |-> "none",
   filled |-> <<>>, cleared |-> "none", found |-> "none", verdict |-> "none"]

\* ret: what send_dm returned; checks, recs, cds: calls of
\* _check_rate_limits, _record_message_sent and _enter_cooldown; verdict:
\* what the verification found; violation: a community-guideline violation
\* was detected
NoCall == [ret |-> "none", checks |-> 0, recs |-> 0, cds |-> 0,
           verdict |-> "none", violation |-> FALSE]

\* No gateway request is in progress.  at: the position; endpoint, body:
\* the gateway endpoint called and its validated request body; forwarded:
\* the JSON the gateway posted to the bridge; operation: the TikTokOperations
\* method the bridge ran, with its arguments; bridge_status: the status of
\* the bridge's answer; raised: the exception raised inside the gateway's
\* "try"; status: the status of the gateway's answer (0: none yet).
\* forwarded, operation and body hold <<>> or one element.
NoRequest ==
  [at |-> "idle", endpoint |-> "none", body |-> <<>>, forwarded |-> <<>>,
   operation |-> <<>>, bridge_status |-> 0, raised |-> "none", status |-> 0]

\* No thread is being posted.  tweets: the texts of the request, in order
\* ("" for a tweet without text); i: the index of the loop; tweet_ids,
\* previous_id: the locals of post_tweets_task, previous_id being <<>> for
\* None; ret: what the task returned ("none": nothing yet, "None", "list");
\* status, urls: the answer of the /post endpoint.
\* History: posts: the calls of post_single_tweet, each with the index of
\* the tweet, the reply_to_id it was given and the value it returned.
NoThread ==
  [at |-> "idle", tweets |-> <<>>, i |-> 1, tweet_ids |-> <<>>,
   previous_id |-> <<>>, ret |-> "none", status |-> 0, urls |-> <<>>,
   posts |-> <<>>]

\* No Instagram send is running.  workflow: which send_dm; at, i: the
\* position and the candidate the running loop tries next; message_opened,
\* send_button, sent: locals of send_dm, send_button being <<>> for None
\* and else the candidate whose element it holds; ret: what was returned.
\* History: msg_clicks: the message-button candidates whose click returned,
\* each with whether the dialog was open afterwards; send_clicks: the send
\* candidates whose click returned; enter: the Enter key was pressed.
NoSend ==
  [at |-> "idle", workflow |-> "none", i |-> 1, message_opened |-> FALSE,
   send_button |-> <<>>, sent |-> FALSE, ret |-> "none",
   msg_clicks |-> <<>>, send_clicks |-> <<>>, enter |-> FALSE]

\* No TwitterOperations operation is running.  playwright: "none",
\* "started" or "stopped"; context: "none", "open" or "closed"; ret: "none",
\* "returned" or "raised".
NoTwitterOp ==
  [at |-> "idle", op |-> "none", playwright |-> "none", context |-> "none",
   ret |-> "none"]

\* base: total_sent as loaded; trues: send_dm calls that returned True;
\* capAt: oldest timestamp of the last hourly-limit denial; cdAt: when this
\* instance last entered cooldown; rests: rest sleeps completed since the
\* last recorded send
NewHist(rl) == [base |-> rl.total_sent, trues |-> 0, capAt |-> <<>>,
                cdAt |-> <<>>, rests |-> 0]

\* what a check saw and answered
CheckRecord(rl, session, rested, now, c) ==
  << [at |-> now, cd |-> rl.last_cooldown, session |-> session,
      rested |-> rested,
      nh |-> Len(Prune(rl.hourly_messages, now - OneHour)),
      nd |-> Len(Prune(rl.daily_messages, now - OneDay)),
      allowed |-> c.allowed, reason |-> c.reason,
      remaining |-> c.remaining] >>

\* The sends of the day so far, as earlier runs of the sender recorded
\* them: MAX_DM_PER_HOUR in each of the hours 9 to 14 and one more at 15,
\* which leaves one send before MAX_DM_PER_DAY is reached.
EarlierSends == [i \in 1..(MAX_DM_PER_DAY - 1) |->
                   WORK_HOURS[1] + 1 + (i - 1) \div MAX_DM_PER_HOUR]

\* the state file as the last of those runs saved it, at its last send
EarlierFile ==
  SaveRateLimits([hourly_messages |-> <<EarlierSends[Len(EarlierSends)]>>,
                  daily_messages |-> EarlierSends,
                  last_cooldown |-> <<>>,
                  total_sent |-> Len(EarlierSends)])

\* the state after construction of the senders, which found the file f
InitLimiter(f) ==
  /\ clock = StartClock
  /\ file = f
  /\ rate_limits = [p \in Senders |-> LoadRateLimits(f)]
  /\ messages_sent_this_session = [p \in Senders |-> 0]
  /\ browser = [p \in Senders |-> "none"]
  /\ pc = [p \in Senders |-> "idle"]
  /\ chk = [p \in Senders |-> <<>>]
  /\ call = [p \in Senders |-> NoCall]
  /\ hist = [p \in Senders |-> NewHist(LoadRateLimits(f))]
  /\ sent = (IF f = <<>> THEN <<>> ELSE f[1].daily_messages)
  /\ restarts = 0

\* nothing is in progress in the other services
InitServices ==
  /\ gateway = NoRequest
  /\ thread = NoThread
  /\ igdm = NoSend
  /\ twop = NoTwitterOp

\* no state file yet
Init ==
  /\ InitLimiter(<<>>)
  /\ wf = NoOperation
  /\ trace = <<>>
  /\ InitServices

\* the senders are constructed late on a day of earlier runs
InitDay ==
  /\ InitLimiter(EarlierFile)
  /\ wf = NoOperation
  /\ trace = <<>>
  /\ InitServices

(***************************************************************************)
(* The clock                                                               *)
(***************************************************************************)
TickHour ==
  /\ (clock - StartClock) % 24 < MaxHourTicks
  /\ clock' = clock + 1
  /\ UNCHANGED <<file, rate_limits, messages_sent_this_session, browser, pc,
                 chk, call, hist, sent, restarts>>
  /\ UNCHANGED <<flowVars, serviceVars>>

TickDay ==
  /\ (clock - StartClock) \div 24 < MaxDayJumps
  /\ clock' = clock + 24
  /\ UNCHANGED <<file, rate_limits, messages_sent_this_session, browser, pc,
                 chk, call, hist, sent, restarts>>
  /\ UNCHANGED <<flowVars, serviceVars>>

(***************************************************************************)
(* send_dm                                                                 *)
(***************************************************************************)
\* Entry of send_dm up to the "try": the username test and the permission
\* check.  A denial returns False, after the rest sleep when resting.
Call(p, hasName) ==
  /\ pc[p] = "idle"
  /\ IF ~hasName
     THEN /\ call' = [call EXCEPT ![p] = [NoCall EXCEPT !.ret = "False"]]
          /\ UNCHANGED <<rate_limits, pc, chk, hist>>
     ELSE LET c == CheckRateLimits(rate_limits[p],
                                   messages_sent_this_session[p], clock)
          IN /\ rate_limits' = [rate_limits EXCEPT ![p] = c.rl]
             /\ chk' = [chk EXCEPT ![p] =
                          CheckRecord(rate_limits[p],
                                      messages_sent_this_session[p],
                                      hist[p].rests > 0, clock, c)]
             /\ hist' = [hist EXCEPT ![p].capAt =
                           IF c.reason = "hourly"
                           THEN <<c.rl.hourly_messages[1]>> ELSE @]
             /\ pc' = [pc EXCEPT ![p] =
                         IF c.allowed THEN "flow"
                         ELSE IF IsRestReason(c.reason) THEN "rest_sleep"
                         ELSE "idle"]
             /\ call' = [call EXCEPT ![p] =
                           [NoCall EXCEPT !.checks = 1, !.ret =
                              IF c.allowed \/ IsRestReason(c.reason)
                              THEN "none" ELSE "False"]]
  /\ UNCHANGED <<clock, file, messages_sent_this_session, browser, sent,
                 restarts>>
  /\ UNCHANGED <<flowVars, serviceVars>>

\* after the rest the call goes on to send
RestWakeProceeds(p) ==
  /\ pc[p] = "rest_sleep"
  /\ pc' = [pc EXCEPT ![p] = "flow"]
  /\ hist' = [hist EXCEPT ![p].rests = 1]
  /\ UNCHANGED <<clock, file, rate_limits, messages_sent_this_session,
                 browser, chk, call, sent, restarts>>
  /\ UNCHANGED <<flowVars, serviceVars>>

\* time.sleep(rest_duration * 60) is over; send_dm returns False
RestWake(p) ==
  /\ pc[p] = "rest_sleep"
  /\ pc' = [pc EXCEPT ![p] = "idle"]
  /\ call' = [call EXCEPT ![p].ret = "False"]
  /\ hist' = [hist EXCEPT ![p].rests = 1]
  /\ UNCHANGED <<clock, file, rate_limits, messages_sent_this_session,
                 browser, chk, sent, restarts>>
  /\ UNCHANGED <<flowVars, serviceVars>>

\* The "except Exception" handler of send_dm: a violation seen on the page
\* (only when self.page exists) starts the cooldown; False is returned.
Handler(p, hasPage, violation) ==
  /\ pc' = [pc EXCEPT ![p] = "idle"]
  /\ IF hasPage /\ violation
     THEN /\ rate_limits' = [rate_limits EXCEPT
                              ![p] = EnterCooldown(@, clock)]
          /\ file' = SaveRateLimits(EnterCooldown(rate_limits[p], clock))
          /\ call' = [call EXCEPT ![p].ret = "False", ![p].cds = @ + 1,
                                  ![p].violation = TRUE]
          /\ hist' = [hist EXCEPT ![p].cdAt = <<clock>>]
     ELSE /\ call' = [call EXCEPT ![p].ret = "False"]
          /\ UNCHANGED <<rate_limits, file, hist>>

\* _setup_browser and steps 1-5 of send_dm, up to and including the send
\* action (send button click or Enter key).
Flow(p, outcome, violation) ==
  /\ pc[p] = "flow"
  /\ \/ /\ outcome = "setup_failed"
        /\ browser[p] # "ready"
        /\ \E b \in {"none", "partial"} :
             /\ browser[p] = "partial" => b = "partial"
             /\ browser' = [browser EXCEPT ![p] = b]
        /\ Handler(p, FALSE, violation)
     \/ /\ outcome = "throw"
        /\ browser[p] # "partial"
        /\ browser' = [browser EXCEPT ![p] = "ready"]
        /\ Handler(p, TRUE, violation)
     \/ /\ outcome \in {"no_search_input", "no_input", "not_sent"}
        /\ browser[p] # "partial"
        /\ browser' = [browser EXCEPT ![p] = "ready"]
        /\ pc' = [pc EXCEPT ![p] = "idle"]
        /\ call' = [call EXCEPT ![p].ret = "False"]
        /\ UNCHANGED <<rate_limits, file, hist>>
     \/ /\ outcome = "sent"
        /\ browser[p] # "partial"
        /\ browser' = [browser EXCEPT ![p] = "ready"]
        /\ pc' = [pc EXCEPT ![p] = "sent"]
        /\ UNCHANGED <<rate_limits, file, hist, call>>
  /\ UNCHANGED <<clock, messages_sent_this_session, chk, sent, restarts>>
  /\ UNCHANGED <<flowVars, serviceVars>>

\* "if sent_success" (lines 510-564) as a decision: a detected violation
\* starts the cooldown and returns False without recording; otherwise the
\* send is recorded once and True is returned after the pause, whether a
\* signal was observed (input cleared, text on the page) or none was.  A
\* signal whose evaluation threw counts as not observed.
\* the send is recorded before the violation is looked for
VerifyOutcomeRecordsViolation(violation, cleared, found) ==
  [cooldown |-> violation, records |-> 1,
   ret |-> IF violation THEN "False" ELSE "True",
   verdict |-> IF violation THEN "none"
               ELSE IF cleared = "observed" \/ found = "observed"
               THEN "Verified" ELSE "Unverified"]

\* a detected violation only fails the call
VerifyOutcomeNoCooldown(violation, cleared, found) ==
  [cooldown |-> FALSE, records |-> IF violation THEN 0 ELSE 1,
   ret |-> IF violation THEN "False" ELSE "True",
   verdict |-> IF violation THEN "none"
               ELSE IF cleared = "observed" \/ found = "observed"
               THEN "Verified" ELSE "Unverified"]

\* both signals are needed
VerifyOutcomeBoth(violation, cleared, found) ==
  [cooldown |-> violation, records |-> IF violation THEN 0 ELSE 1,
   ret |-> IF violation THEN "False" ELSE "True",
   verdict |-> IF violation THEN "none"
               ELSE IF cleared = "observed" /\ found = "observed"
               THEN "Verified" ELSE "Unverified"]

VerifyOutcome(violation, cleared, found) ==
  IF violation
  THEN [cooldown |-> TRUE, records |-> 0, ret |-> "False",
        verdict |-> "none"]
  ELSE IF cleared = "observed"
  THEN [cooldown |-> FALSE, records |-> 1, ret |-> "True",
        verdict |-> "Verified"]
  ELSE IF found = "observed"
  THEN [cooldown |-> FALSE, records |-> 1, ret |-> "True",
        verdict |-> "Verified"]
  ELSE [cooldown |-> FALSE, records |-> 1, ret |-> "True",
        verdict |-> "Unverified"]

\* n calls of _record_message_sent at time now
RECURSIVE RecordTimes(_, _, _)
RecordTimes(rl, n, now) ==
  IF n = 0 THEN rl ELSE RecordTimes(RecordMessageSent(rl, now), n - 1, now)

RECURSIVE AppendTimes(_, _, _)
AppendTimes(log, n, now) ==
  IF n = 0 THEN log ELSE AppendTimes(Append(log, now), n - 1, now)

\* The part of send_dm after a performed send action.
Verify(p, violation, cleared, found) ==
  LET o == VerifyOutcome(violation, cleared, found)
      rl == IF o.cooldown
            THEN EnterCooldown(RecordTimes(rate_limits[p], o.records, clock),
                               clock)
            ELSE RecordTimes(rate_limits[p], o.records, clock)
  IN /\ pc[p] = "sent"
     /\ rate_limits' = [rate_limits EXCEPT ![p] = rl]
     /\ messages_sent_this_session' =
          [messages_sent_this_session EXCEPT ![p] = @ + o.records]
     /\ file' = SaveRateLimits(rl)
     /\ sent' = AppendTimes(sent, o.records, clock)
     /\ pc' = [pc EXCEPT ![p] = IF o.ret = "True" THEN "delay" ELSE "idle"]
     /\ call' = [call EXCEPT
                  ![p].ret = IF o.ret = "True" THEN "none" ELSE o.ret,
                  ![p].recs = @ + o.records,
                  ![p].cds = @ + (IF o.cooldown THEN 1 ELSE 0),
                  ![p].violation = violation,
                  ![p].verdict = o.verdict]
     /\ hist' = [hist EXCEPT
                  ![p].cdAt = IF o.cooldown THEN <<clock>> ELSE @,
                  ![p].rests = IF o.records > 0 THEN 0 ELSE @]
     /\ UNCHANGED <<clock, browser, chk, restarts>>
     /\ UNCHANGED <<flowVars, serviceVars>>

\* the 5-15 minute pause after a recorded send is over; send_dm returns True
ReturnTrue(p) ==
  /\ pc[p] = "delay"
  /\ pc' = [pc EXCEPT ![p] = "idle"]
  /\ call' = [call EXCEPT ![p].ret = "True"]
  /\ hist' = [hist EXCEPT ![p].trues = @ + 1]
  /\ UNCHANGED <<clock, file, rate_limits, messages_sent_this_session,
                 browser, chk, sent, restarts>>
  /\ UNCHANGED <<flowVars, serviceVars>>

\* The process of sender p ends and a new TikTokDMSender is constructed:
\* __init__ reloads the file and resets the session count.
Restart(p) ==
  /\ restarts < MaxRestarts
  /\ restarts' = restarts + 1
  /\ rate_limits' = [rate_limits EXCEPT ![p] = LoadRateLimits(file)]
  /\ messages_sent_this_session' =
       [messages_sent_this_session EXCEPT ![p] = 0]
  /\ browser' = [browser EXCEPT ![p] = "none"]
  /\ pc' = [pc EXCEPT ![p] = "idle"]
  /\ chk' = [chk EXCEPT ![p] = <<>>]
  /\ call' = [call EXCEPT ![p] = NoCall]
  /\ hist' = [hist EXCEPT ![p] = NewHist(LoadRateLimits(file))]
  /\ UNCHANGED <<clock, file, sent>>
  /\ UNCHANGED <<flowVars, serviceVars>>

\* Single-instance operation: one sender process, restarted now and then.
Next ==
  \/ TickHour
  \/ TickDay
  \/ \E hasName \in BOOLEAN : Call(Solo, hasName)
  \/ RestWake(Solo)
  \/ \E o \in FlowOutcomes, v \in BOOLEAN : Flow(Solo, o, v)
  \/ \E v \in BOOLEAN, c \in Signals, f \in Signals : Verify(Solo, v, c, f)
  \/ ReturnTrue(Solo)
  \/ Restart(Solo)

Spec == Init /\ [][Next]_vars

\* One sender instance from its construction on, never restarted.
NextInstance ==
  \/ TickHour
  \/ TickDay
  \/ \E hasName \in BOOLEAN : Call(Solo, hasName)
  \/ RestWake(Solo)
  \/ \E o \in FlowOutcomes, v \in BOOLEAN : Flow(Solo, o, v)
  \/ \E v \in BOOLEAN, c \in Signals, f \in Signals : Verify(Solo, v, c, f)
  \/ ReturnTrue(Solo)

SpecInstance == Init /\ [][NextInstance]_vars

\* Single-instance operation that starts one send below the daily cap.
SpecDay == InitDay /\ [][Next]_vars

\* Two sender processes running at the same time against the same file.
NextShared ==
  \/ TickHour
  \/ \E p \in Senders, hasName \in BOOLEAN : Call(p, hasName)
  \/ \E p \in Senders : RestWake(p)
  \/ \E p \in Senders, o \in FlowOutcomes, v \in BOOLEAN : Flow(p, o, v)
  \/ \E p \in Senders, v \in BOOLEAN, c \in Signals, f \in Signals :
       Verify(p, v, c, f)
  \/ \E p \in Senders : ReturnTrue(p)

SpecShared == Init /\ [][NextShared]_vars

(***************************************************************************)
(* The verification of send_dm when _save_rate_limits or the pause after a *)
(* recorded send fails.  A failed save leaves the file as it was.          *)
(***************************************************************************)
\* What one _record_message_sent with the pause after it does to the call:
\* the save raises (after the dictionary and the session count were
\* updated), or the sleep is interrupted (after the save), or neither.
Faults == {"ok", "save_raises", "interrupted"}

\* Lines 520-567 for the signals cleared and found, f[1], f[2] and f[3] being
\* what happens at the record of check 1, of check 2 and of the last
\* branch.  The "except:" of the two checks swallows whatever is raised
\* inside them, and the next branch runs; the last branch is covered only
\* by "except Exception" of send_dm, which returns False, and an interrupt
\* leaves send_dm.  records: calls of _record_message_sent; saved: how many
\* of them the last successful save wrote; ret: what the call gave.
VerifyWithFaults(cleared, found, f) ==
  LET n1 == IF cleared = "observed" THEN 1 ELSE 0
      s1 == IF n1 = 1 /\ f[1] # "save_raises" THEN n1 ELSE 0
      n2 == IF found = "observed" THEN n1 + 1 ELSE n1
      s2 == IF n2 > n1 /\ f[2] # "save_raises" THEN n2 ELSE s1
      n3 == n2 + 1
      s3 == IF f[3] # "save_raises" THEN n3 ELSE s2
  IN IF n1 = 1 /\ f[1] = "ok"
     THEN [records |-> n1, saved |-> s1, ret |-> "True"]
     ELSE IF n2 > n1 /\ f[2] = "ok"
     THEN [records |-> n2, saved |-> s2, ret |-> "True"]
     ELSE [records |-> n3, saved |-> s3,
           ret |-> CASE f[3] = "ok" -> "True"
                     [] f[3] = "save_raises" -> "False"
                     [] f[3] = "interrupted" -> "raised"]

\* the part of send_dm after a performed send action on which no violation
\* is detected, with those failures
VerifyFaulty(p, cleared, found, f) ==
  LET o == VerifyWithFaults(cleared, found, f)
  IN /\ pc[p] = "sent"
     /\ rate_limits' = [rate_limits EXCEPT
                          ![p] = RecordTimes(@, o.records, clock)]
     /\ messages_sent_this_session' =
          [messages_sent_this_session EXCEPT ![p] = @ + o.records]
     /\ file' = IF o.saved > 0
                THEN SaveRateLimits(RecordTimes(rate_limits[p], o.saved,
                                                clock))
                ELSE file
     /\ sent' = Append(sent, clock)
     /\ pc' = [pc EXCEPT ![p] = "idle"]
     /\ call' = [call EXCEPT ![p].ret = o.ret, ![p].recs = @ + o.records,
                             ![p].verdict =
                                IF cleared = "observed" \/ found = "observed"
                                THEN "Verified" ELSE "Unverified"]
     /\ hist' = [hist EXCEPT
                  ![p].trues = IF o.ret = "True" THEN @ + 1 ELSE @,
                  ![p].rests = 0]
     /\ UNCHANGED <<clock, browser, chk, restarts>>
     /\ UNCHANGED <<flowVars, serviceVars>>

\* single-instance operation on a disk that can fail
NextFault ==
  \/ TickHour
  \/ \E hasName \in BOOLEAN : Call(Solo, hasName)
  \/ RestWake(Solo)
  \/ \E o \in FlowOutcomes, v \in BOOLEAN : Flow(Solo, o, v)
  \/ \E c \in Signals, f \in Signals, x \in [1..3 -> Faults] :
       VerifyFaulty(Solo, c, f, x)

SpecFault == Init /\ [][NextFault]_vars

(***************************************************************************)
(* One page operation, selector by selector: send_dm of the DM sender and  *)
(* like_video / follow_user of the bridge server.  What the page does      *)
(* (which selectors resolve, what throws) is free.  The permission check   *)
(* of send_dm is here a free answer; its content is in CheckRateLimits.    *)
(***************************************************************************)
\* the message is sent before it is typed
StepAfterSendFirst(at) ==
  CASE at = "check" -> "open_profile"
    [] at = "open_profile" -> "follow_loop"
    [] at = "follow_loop" -> "message_loop"
    [] at = "message_loop" -> "input_loop"
    [] at = "input_loop" -> "send_loop"
    [] at = "send_loop" -> "fill"
    [] at = "fill" -> "verify"
    [] at = "verify" -> "signal_cleared"
    [] at = "signal_cleared" -> "signal_found"
    [] at = "signal_found" -> "record"
    [] OTHER -> "done"

\* the statement order of send_dm: the step that follows step at when at
\* neither returns nor throws
StepAfter(at) ==
  CASE at = "check" -> "open_profile"
    [] at = "open_profile" -> "follow_loop"
    [] at = "follow_loop" -> "message_loop"
    [] at = "message_loop" -> "input_loop"
    [] at = "input_loop" -> "fill"
    [] at = "fill" -> "send_loop"
    [] at = "send_loop" -> "verify"
    [] at = "verify" -> "signal_cleared"
    [] at = "signal_cleared" -> "signal_found"
    [] at = "signal_found" -> "record"
    [] OTHER -> "done"

\* the loop goes on after a click
BreaksNever(r) == FALSE

\* "break": the click returned, or the follow button reads Following
Breaks(r) == r \in {"clicked", "following"}

\* the exception leaves the operation
BridgeExceptReraises == "raised"

\* "except Exception as e: return {'success': False, 'error': str(e)}"
BridgeExcept == "failure"

\* the body of "for selector in ...: try: ... except: continue" has run
\* for candidate w.i of the loop named name, with result r
Attempt(w, name, r) ==
  [w EXCEPT !.loop = name,
            !.tried = IF w.i = 1 THEN <<[cand |-> w.i, result |-> r]>>
                      ELSE Append(@, [cand |-> w.i, result |-> r]),
            !.clicks = IF r = "clicked"
                       THEN (IF w.i = 1 THEN <<w.i>> ELSE Append(@, w.i))
                       ELSE (IF w.i = 1 THEN <<>> ELSE @),
            !.i = @ + 1]

\* the loop over the candidates sels is left after this attempt
LoopEnds(w, r, sels) == Breaks(r) \/ w.i >= Cardinality(sels)

Returns(w, value) == [w EXCEPT !.at = "done", !.ret = value]

\* the history of the last loop is dropped
Forget(w) == [w EXCEPT !.loop = "none", !.tried = <<>>, !.clicks = <<>>]

\* the steps of the "except Exception" handler of send_dm
ExceptSteps(hasPage, violation) ==
  IF hasPage /\ violation THEN <<"except", "cooldown">> ELSE <<"except">>

\* an operation is called
Begin(op) ==
  /\ wf.at \in {"idle", "done"}
  /\ wf' = [NoOperation EXCEPT
              !.op = op,
              !.at = IF op = "send_dm" THEN "check" ELSE "open_page"]
  /\ trace' = <<>>
  /\ UNCHANGED <<limiterVars, serviceVars>>

\* send_dm, lines 295-303
CheckPermission(allowed) ==
  /\ wf.at = "check"
  /\ trace' = Append(trace, "check")
  /\ wf' = IF allowed THEN [wf EXCEPT !.at = StepAfter("check")]
           ELSE Returns(wf, "False")
  /\ UNCHANGED <<limiterVars, serviceVars>>

\* _setup_browser and step 1
OpenProfile(r, violation) ==
  /\ wf.at = "open_profile"
  /\ \/ /\ r = "setup_throws"
        /\ trace' = trace \o ExceptSteps(FALSE, violation)
        /\ wf' = Returns(wf, "False")
     \/ /\ r = "goto_throws"
        /\ trace' = trace \o ExceptSteps(TRUE, violation)
        /\ wf' = Returns(wf, "False")
     \/ /\ r = "ok"
        /\ trace' = Append(trace, "goto_profile")
        /\ wf' = [wf EXCEPT !.at = StepAfter("open_profile"), !.i = 1]
  /\ UNCHANGED <<limiterVars, serviceVars>>

\* step 2: one candidate of follow_selectors
FollowCandidate(r) ==
  /\ wf.at = "follow_loop"
  /\ wf' = LET a == Attempt(wf, "follow_loop", r)
           IN IF LoopEnds(wf, r, follow_selectors)
              THEN [a EXCEPT !.at = StepAfter("follow_loop"), !.i = 1]
              ELSE a
  /\ trace' = IF r = "clicked" THEN Append(trace, "click_follow") ELSE trace
  /\ UNCHANGED <<limiterVars, serviceVars>>

\* step 3: one candidate of message_selectors
MessageCandidate(r) ==
  /\ wf.at = "message_loop"
  /\ wf' = LET a == [Attempt(wf, "message_loop", r) EXCEPT
                       !.message_opened = (r = "clicked")]
           IN IF LoopEnds(wf, r, message_selectors)
              THEN [a EXCEPT !.i = 1,
                             !.at = IF r = "clicked"
                                    THEN StepAfter("message_loop")
                                    ELSE "fallback"]
              ELSE a
  /\ trace' = IF r = "clicked" THEN Append(trace, "click_message") ELSE trace
  /\ UNCHANGED <<limiterVars, serviceVars>>

\* "if not message_opened": the messages page, its search box and the
\* first search result
Fallback(r, violation) ==
  /\ wf.at = "fallback"
  /\ LET w == [wf EXCEPT !.search = r]
         done == CASE r = "goto_throws" -> <<>>
                   [] r \in {"search_throws", "search_none", "fill_throws"}
                        -> <<"goto_messages">>
                   [] r \in {"no_results", "click_throws"}
                        -> <<"goto_messages", "fill_search">>
                   [] r = "clicked"
                        -> <<"goto_messages", "fill_search", "click_result">>
     IN IF r \in {"goto_throws", "search_throws", "fill_throws",
                  "click_throws"}
        THEN /\ trace' = trace \o done \o ExceptSteps(TRUE, violation)
             /\ wf' = Returns(w, "False")
        ELSE IF r = "search_none"
        THEN /\ trace' = trace \o done
             /\ wf' = Returns(w, "False")
        ELSE /\ trace' = trace \o done
             /\ wf' = [w EXCEPT !.at = StepAfter("message_loop"), !.i = 1]
  /\ UNCHANGED <<limiterVars, serviceVars>>

\* the call is given up after the first pass that finds no input
InputCandidateOnePass(r) ==
  /\ wf.at = "input_loop"
  /\ LET held == IF r = "throws" THEN wf.message_input
                 ELSE <<[cand |-> wf.i, visible |-> (r = "visible"),
                         retry |-> wf.retry]>>
         a == [Attempt(wf, "input_loop", r) EXCEPT !.message_input = held]
     IN wf' = IF r = "visible" \/ wf.i >= Cardinality(input_selectors)
              THEN IF held # <<>>
                   THEN [a EXCEPT !.at = StepAfter("input_loop"), !.i = 1]
                   ELSE Returns(a, "False")
              ELSE a
  /\ trace' = IF wf.i = 1 THEN Append(trace, "locate_input") ELSE trace
  /\ UNCHANGED <<limiterVars, serviceVars>>

\* step 4: one candidate of input_selectors.  The element is assigned to
\* message_input before its visibility is tested, and a candidate that
\* throws leaves message_input as it was.
InputCandidate(r) ==
  /\ wf.at = "input_loop"
  /\ LET held == IF r = "throws" THEN wf.message_input
                 ELSE <<[cand |-> wf.i, visible |-> (r = "visible"),
                         retry |-> wf.retry]>>
         a == [Attempt(wf, "input_loop", r) EXCEPT !.message_input = held]
     IN wf' = IF r = "visible" \/ wf.i >= Cardinality(input_selectors)
              THEN IF held # <<>>
                   THEN [a EXCEPT !.at = StepAfter("input_loop"), !.i = 1]
                   ELSE IF wf.retry < max_retries - 1
                   THEN [a EXCEPT !.at = "repair", !.i = 1]
                   ELSE Returns(a, "False")
              ELSE a
  /\ trace' = IF wf.i = 1 THEN Append(trace, "locate_input") ELSE trace
  /\ UNCHANGED <<limiterVars, serviceVars>>

\* strategies 1 and 2 of the repair: Escape, and the wait for network idle;
\* what they throw is swallowed
Repair ==
  /\ wf.at = "repair"
  /\ trace' = trace \o <<"press_escape", "wait_idle">>
  /\ wf' = [wf EXCEPT !.at = "reclick_loop", !.i = 1]
  /\ UNCHANGED <<limiterVars, serviceVars>>

\* strategy 3: one candidate of message_selectors again (query_selector);
\* then the next pass of the input search
ReclickCandidate(r) ==
  /\ wf.at = "reclick_loop"
  /\ wf' = LET a == Attempt(wf, "reclick_loop", r)
           IN IF LoopEnds(wf, r, message_selectors)
              THEN [a EXCEPT !.at = "input_loop", !.i = 1,
                             !.retry = @ + 1]
              ELSE a
  /\ trace' = IF r = "clicked" THEN Append(trace, "reclick_message")
              ELSE trace
  /\ UNCHANGED <<limiterVars, serviceVars>>

\* message_input.fill(message) and the reading of the input's text
Fill(r, violation) ==
  /\ wf.at = "fill"
  /\ \/ /\ r = "fill_throws"
        /\ trace' = trace \o ExceptSteps(TRUE, violation)
        /\ wf' = Returns(wf, "False")
     \/ /\ r = "read_throws"
        /\ trace' = trace \o <<"fill_input">> \o ExceptSteps(TRUE, violation)
        /\ wf' = Returns([wf EXCEPT !.filled = wf.message_input], "False")
     \/ /\ r = "ok"
        /\ trace' = Append(trace, "fill_input")
        /\ wf' = [wf EXCEPT !.filled = wf.message_input,
                            !.at = StepAfter("fill"), !.i = 1]
  /\ UNCHANGED <<limiterVars, serviceVars>>

\* step 5, method 1: one candidate of send_selectors
SendCandidate(r) ==
  /\ wf.at = "send_loop"
  /\ wf' = LET a == [Attempt(wf, "send_loop", r) EXCEPT
                       !.sent_success = (r = "clicked")]
           IN IF LoopEnds(wf, r, send_selectors)
              THEN [a EXCEPT !.i = 1,
                             !.at = IF r = "clicked"
                                    THEN StepAfter("send_loop")
                                    ELSE "press_enter"]
              ELSE a
  /\ trace' = IF r = "clicked" THEN Append(trace, "click_send") ELSE trace
  /\ UNCHANGED <<limiterVars, serviceVars>>

\* step 5, method 2: the Enter key; "return False" when that throws too
PressEnter(ok) ==
  /\ wf.at = "press_enter"
  /\ IF ok
     THEN /\ trace' = Append(trace, "press_enter")
          /\ wf' = [Forget(wf) EXCEPT !.sent_success = TRUE,
                                      !.at = StepAfter("send_loop")]
     ELSE /\ trace' = trace
          /\ wf' = Returns(Forget(wf), "False")
  /\ UNCHANGED <<limiterVars, serviceVars>>

\* lines 515-518
ViolationCheck(violation) ==
  /\ wf.at = "verify"
  /\ IF VerifyOutcome(violation, "none", "none").cooldown
     THEN /\ trace' = trace \o <<"violation_check", "cooldown">>
          /\ wf' = Returns(Forget(wf),
                           VerifyOutcome(violation, "none", "none").ret)
     ELSE /\ trace' = Append(trace, "violation_check")
          /\ wf' = [Forget(wf) EXCEPT !.at = StepAfter("verify")]
  /\ UNCHANGED <<limiterVars, serviceVars>>

\* check 1: is the input cleared
SignalCleared(c) ==
  /\ wf.at = "signal_cleared"
  /\ trace' = Append(trace, "signal_cleared")
  /\ wf' = [wf EXCEPT !.cleared = c,
                      !.at = IF c = "observed" THEN "record"
                             ELSE StepAfter("signal_cleared")]
  /\ UNCHANGED <<limiterVars, serviceVars>>

\* check 2: is the text on the page
SignalFound(f) ==
  /\ wf.at = "signal_found"
  /\ trace' = Append(trace, "signal_found")
  /\ wf' = [wf EXCEPT !.found = f, !.at = StepAfter("signal_found")]
  /\ UNCHANGED <<limiterVars, serviceVars>>

\* _record_message_sent, the pause and "return True", on any of the three
\* paths
RecordAndReturn ==
  /\ wf.at = "record"
  /\ LET o == VerifyOutcome(FALSE, wf.cleared, wf.found)
     IN /\ trace' = IF o.records > 0 THEN Append(trace, "record") ELSE trace
        /\ wf' = [Returns(wf, o.ret) EXCEPT !.verdict = o.verdict]
  /\ UNCHANGED <<limiterVars, serviceVars>>

\* like_video / follow_user: the session test, the browser and page.goto
OpenPage(r) ==
  /\ wf.at = "open_page"
  /\ \/ /\ r = "no_session"
        /\ trace' = trace
        /\ wf' = Returns(wf, "failure")
     \/ /\ r = "throws"
        /\ trace' = Append(trace, "except")
        /\ wf' = Returns(wf, BridgeExcept)
     \/ /\ r = "ok"
        /\ trace' = Append(trace, "goto_page")
        /\ wf' = [wf EXCEPT !.at = "click_loop", !.i = 1]
  /\ UNCHANGED <<limiterVars, serviceVars>>

\* one candidate of like_selectors / follow_selectors
BridgeCandidate(r) ==
  /\ wf.at = "click_loop"
  /\ wf' = LET a == Attempt(wf, "click_loop", r)
               sels == IF wf.op = "like_video" THEN like_selectors
                       ELSE follow_selectors_bridge
           IN IF LoopEnds(wf, r, sels)
              THEN [a EXCEPT !.at = "close", !.i = 1]
              ELSE a
  /\ trace' = IF r = "clicked" THEN Append(trace, "click_button") ELSE trace
  /\ UNCHANGED <<limiterVars, serviceVars>>

\* browser.close() and the result dictionary
ClosePage(ok) ==
  /\ wf.at = "close"
  /\ IF ok
     THEN /\ trace' = trace
          /\ wf' = Returns(wf, IF wf.clicks # <<>> THEN "success"
                               ELSE "failure")
     ELSE /\ trace' = Append(trace, "except")
          /\ wf' = Returns(wf, BridgeExcept)
  /\ UNCHANGED <<limiterVars, serviceVars>>

NextFlow ==
  \/ \E op \in Operations : Begin(op)
  \/ \E allowed \in BOOLEAN : CheckPermission(allowed)
  \/ \E r \in {"setup_throws", "goto_throws", "ok"}, v \in BOOLEAN :
       OpenProfile(r, v)
  \/ \E r \in FollowResults : FollowCandidate(r)
  \/ \E r \in ClickResults : MessageCandidate(r)
  \/ \E r \in SearchResults, v \in BOOLEAN : Fallback(r, v)
  \/ \E r \in InputResults : InputCandidate(r)
  \/ Repair
  \/ \E r \in ClickResults : ReclickCandidate(r)
  \/ \E r \in {"fill_throws", "read_throws", "ok"}, v \in BOOLEAN : Fill(r, v)
  \/ \E r \in ClickResults : SendCandidate(r)
  \/ \E ok \in BOOLEAN : PressEnter(ok)
  \/ \E v \in BOOLEAN : ViolationCheck(v)
  \/ \E c \in Signals : SignalCleared(c)
  \/ \E f \in Signals : SignalFound(f)
  \/ RecordAndReturn
  \/ \E r \in {"no_session", "throws", "ok"} : OpenPage(r)
  \/ \E r \in ClickResults : BridgeCandidate(r)
  \/ \E ok \in BOOLEAN : ClosePage(ok)

SpecFlow == Init /\ [][NextFlow]_vars

(***************************************************************************)
(* The API gateway (backend/api/v1/tiktok.py) in front of the TikTok       *)
(* bridge server (tiktok_bridge_server.py): one request at a time.  A JSON *)
(* object is a record; dict.get of a missing key gives None.              *)
(***************************************************************************)
None == "<None>"

\* d.get(k)
Get(d, k) == IF k \in DOMAIN d THEN d[k] ELSE None

\* "not v" of a string or None
Falsy(v) == v \in {None, ""}

\* the request models VideoCommentRequest, VideoLikeRequest and DMRequest:
\* every field is a required string, which may be empty
Bodies(e) ==
  CASE e = "videos/comment" -> [video_url : Strings, comment_text : Strings]
    [] e = "videos/like" -> [video_url : Strings]
    [] e = "dm/send" -> [username : Strings, message : Strings]

\* the "json=" argument of client.post in each gateway endpoint
GatewayJson(e, body) ==
  CASE e = "videos/comment" ->
         [video_url |-> body.video_url, comment_text |-> body.comment_text]
    [] e = "videos/like" -> [video_url |-> body.video_url]
    [] e = "dm/send" -> [username |-> body.username, message |-> body.message]

\* the keys the bridge endpoint reads from request.get_json(), in the order
\* of the arguments of the operation it calls
BridgeReads(e) ==
  CASE e = "videos/comment" -> <<"video_url", "text">>
    [] e = "videos/like" -> <<"video_url">>
    [] e = "dm/send" -> <<"username", "message">>

\* the TikTokOperations method behind the bridge endpoint
BridgeOperation(e) ==
  CASE e = "videos/comment" -> "comment_on_video"
    [] e = "videos/like" -> "like_video"
    [] e = "dm/send" -> "send_dm"

\* The "except" clauses of a gateway endpoint, in order, for an exception
\* raised inside its "try": httpx.RequestError gives 503; "except Exception"
\* gives 500, and HTTPException is an Exception.
ExceptStatus(exc) ==
  IF exc = "RequestError" THEN 503 ELSE 500

\* a request passes validation and enters the endpoint
GatewayRequest(e, body) ==
  /\ gateway.at \in {"idle", "done"}
  /\ gateway' = [NoRequest EXCEPT !.at = "post", !.endpoint = e,
                                  !.body = <<body>>]
  /\ UNCHANGED <<limiterVars, flowVars, thread, igdm, twop>>

\* client.post: the bridge is not reachable (httpx.RequestError), or it
\* receives the JSON
GatewayPost(reachable) ==
  /\ gateway.at = "post"
  /\ gateway' =
       IF reachable
       THEN [gateway EXCEPT
               !.at = "bridge",
               !.forwarded = <<GatewayJson(gateway.endpoint,
                                           gateway.body[1])>>]
       ELSE [gateway EXCEPT !.at = "done", !.raised = "RequestError",
                            !.status = ExceptStatus("RequestError")]
  /\ UNCHANGED <<limiterVars, flowVars, thread, igdm, twop>>

\* The bridge endpoint: 400 when a value it reads is missing or empty, else
\* the operation runs and its result is answered with 200 or 500.
BridgeEndpoint(success) ==
  /\ gateway.at = "bridge"
  /\ LET data == gateway.forwarded[1]
         reads == BridgeReads(gateway.endpoint)
         args == [i \in DOMAIN reads |-> Get(data, reads[i])]
     IN gateway' =
          IF \E i \in DOMAIN args : Falsy(args[i])
          THEN [gateway EXCEPT !.at = "relay", !.bridge_status = 400]
          ELSE [gateway EXCEPT
                  !.at = "relay",
                  !.operation = <<[name |-> BridgeOperation(gateway.endpoint),
                                   args |-> args]>>,
                  !.bridge_status = IF success THEN 200 ELSE 500]
  /\ UNCHANGED <<limiterVars, flowVars, thread, igdm, twop>>

\* The gateway reads the bridge's answer: a status other than 200 raises
\* HTTPException(status_code=response.status_code) inside the "try".
GatewayRelay ==
  /\ gateway.at = "relay"
  /\ gateway' =
       IF gateway.bridge_status # 200
       THEN [gateway EXCEPT !.at = "done", !.raised = "HTTPException",
                            !.status = ExceptStatus("HTTPException")]
       ELSE [gateway EXCEPT !.at = "done", !.status = 200]
  /\ UNCHANGED <<limiterVars, flowVars, thread, igdm, twop>>

NextGateway ==
  \/ \E e \in Endpoints : \E body \in Bodies(e) : GatewayRequest(e, body)
  \/ \E reachable \in BOOLEAN : GatewayPost(reachable)
  \/ \E success \in BOOLEAN : BridgeEndpoint(success)
  \/ GatewayRelay

SpecGateway == Init /\ [][NextGateway]_vars

(***************************************************************************)
(* post_tweets_task and the /post endpoint of the Twitter bridge server    *)
(* (twitter_bridge_server.py): one request at a time.                      *)
(***************************************************************************)
\* the requests: one to MaxTweets tweets, with or without text
Threads == UNION {[1..n -> {"", "text"}] : n \in 1..MaxTweets}

\* the id Twitter gives the n-th tweet created in this request
TweetId(n) == <<"1001", "1002", "1003", "1004">>[n]

\* the tweets created so far: the calls that returned an id or the placeholder
Created(posts) == SelectSeq(posts, LAMBDA c : c.id # "None")

\* post_tweet_endpoint up to the verified login in post_tweets_task
PostTweetsTask(tweets, r) ==
  /\ thread.at \in {"idle", "done"}
  /\ thread' =
       CASE r = "no_session" ->
              [NoThread EXCEPT !.at = "respond", !.tweets = tweets,
                               !.ret = "None"]
         [] r = "launch_throws" ->
              [NoThread EXCEPT !.at = "done", !.tweets = tweets,
                               !.ret = "raised", !.status = 500]
         [] r = "login_fails" ->
              [NoThread EXCEPT !.at = "respond", !.tweets = tweets,
                               !.ret = "None"]
         [] r = "ok" ->
              [NoThread EXCEPT !.at = "loop", !.tweets = tweets]
  /\ UNCHANGED <<limiterVars, flowVars, gateway, igdm, twop>>

\* the end of the "for" loop when index i was the last
AfterTweet(t) ==
  IF t.i >= Len(t.tweets) THEN [t EXCEPT !.at = "close", !.i = @ + 1]
  ELSE [t EXCEPT !.i = @ + 1]

\* "if not text: continue"
SkipTweet ==
  /\ thread.at = "loop"
  /\ thread.tweets[thread.i] = ""
  /\ thread' = AfterTweet(thread)
  /\ UNCHANGED <<limiterVars, flowVars, gateway, igdm, twop>>

\* One iteration with a text: post_single_tweet(page, text, previous_id)
\* returns r; "if tweet_id:" holds for an id and for the placeholder.
PostSingleTweet(r) ==
  /\ thread.at = "loop"
  /\ thread.tweets[thread.i] # ""
  /\ LET tweet_id == IF r = "id"
                     THEN TweetId(Len(Created(thread.posts)) + 1)
                     ELSE r
         c == [index |-> thread.i, reply_to |-> thread.previous_id,
               id |-> tweet_id]
         t == [thread EXCEPT !.posts = Append(@, c)]
     IN thread' =
          IF tweet_id # "None"
          THEN AfterTweet([t EXCEPT !.tweet_ids = Append(@, tweet_id),
                                    !.previous_id = <<tweet_id>>])
          ELSE AfterTweet(t)
  /\ UNCHANGED <<limiterVars, flowVars, gateway, igdm, twop>>

\* context.close() and "return tweet_ids"
CloseThread ==
  /\ thread.at = "close"
  /\ thread' = [thread EXCEPT !.at = "respond", !.ret = "list"]
  /\ UNCHANGED <<limiterVars, flowVars, gateway, igdm, twop>>

\* the endpoint's answer: 500 when the task gave None or an empty list,
\* else the ids and the URLs of those that are not the placeholder
RespondThread ==
  /\ thread.at = "respond"
  /\ thread' =
       IF thread.ret = "None" \/ thread.tweet_ids = <<>>
       THEN [thread EXCEPT !.at = "done", !.status = 500]
       ELSE [thread EXCEPT
               !.at = "done", !.status = 200,
               !.urls = SelectSeq(thread.tweet_ids,
                                  LAMBDA tid : tid # "unknown")]
  /\ UNCHANGED <<limiterVars, flowVars, gateway, igdm, twop>>

NextThread ==
  \/ \E tweets \in Threads :
       \E r \in {"no_session", "launch_throws", "login_fails", "ok"} :
         PostTweetsTask(tweets, r)
  \/ SkipTweet
  \/ \E r \in PostResults : PostSingleTweet(r)
  \/ CloseThread
  \/ RespondThread

SpecThread == Init /\ [][NextThread]_vars

(***************************************************************************)
(* One operation of TwitterOperations (twitter_operations.py): what it     *)
(* acquires in _get_browser_context and what it releases.                  *)
(***************************************************************************)
\* an operation is called
BeginOp(op) ==
  /\ twop.at \in {"idle", "done"}
  /\ twop' = [NoTwitterOp EXCEPT !.at = "get_context", !.op = op]
  /\ UNCHANGED <<limiterVars, flowVars, gateway, thread, igdm>>

\* _get_browser_context, called before the "try" of the operation: what it
\* raises leaves the operation
GetBrowserContext(r) ==
  /\ twop.at = "get_context"
  /\ twop' =
       CASE r \in {"no_session", "start_throws"} ->
              [twop EXCEPT !.at = "done", !.ret = "raised"]
         [] r = "launch_throws" ->
              [twop EXCEPT !.at = "done", !.ret = "raised",
                           !.playwright = "started"]
         [] r = "new_page_throws" ->
              [twop EXCEPT !.at = "done", !.ret = "raised",
                           !.playwright = "started", !.context = "open"]
         [] r = "ok" ->
              [twop EXCEPT !.at = "page", !.playwright = "started",
                           !.context = "open"]
  /\ UNCHANGED <<limiterVars, flowVars, gateway, thread, igdm>>

\* the page work inside the "try"
PageWork(ok) ==
  /\ twop.at = "page"
  /\ twop' = [twop EXCEPT !.at = IF ok THEN "release" ELSE "except"]
  /\ UNCHANGED <<limiterVars, flowVars, gateway, thread, igdm>>

\* "await context.close(); await playwright.stop(); return ...", still
\* inside the "try"
Release(r) ==
  /\ twop.at = "release"
  /\ twop' =
       CASE r = "close_throws" -> [twop EXCEPT !.at = "except"]
         [] r = "stop_throws" ->
              [twop EXCEPT !.at = "except", !.context = "closed"]
         [] r = "ok" ->
              [twop EXCEPT !.at = "done", !.context = "closed",
                           !.playwright = "stopped", !.ret = "returned"]
  /\ UNCHANGED <<limiterVars, flowVars, gateway, thread, igdm>>

\* "except Exception as e: await context.close(); await playwright.stop();
\* raise e"
ExceptRelease(r) ==
  /\ twop.at = "except"
  /\ twop' =
       CASE r = "close_throws" -> [twop EXCEPT !.at = "done", !.ret = "raised"]
         [] r = "stop_throws" ->
              [twop EXCEPT !.at = "done", !.ret = "raised",
                           !.context = "closed"]
         [] r = "ok" ->
              [twop EXCEPT !.at = "done", !.ret = "raised",
                           !.context = "closed", !.playwright = "stopped"]
  /\ UNCHANGED <<limiterVars, flowVars, gateway, thread, igdm>>

NextTwitterOps ==
  \/ \E op \in TwitterOps : BeginOp(op)
  \/ \E r \in {"no_session", "start_throws", "launch_throws",
               "new_page_throws", "ok"} : GetBrowserContext(r)
  \/ \E ok \in BOOLEAN : PageWork(ok)
  \/ \E r \in {"close_throws", "stop_throws", "ok"} : Release(r)
  \/ \E r \in {"close_throws", "stop_throws", "ok"} : ExceptRelease(r)

SpecTwitterOps == Init /\ [][NextTwitterOps]_vars

(***************************************************************************)
(* send_dm of the Instagram senders, from the message button on, one       *)
(* candidate at a time.  The steps before the message button and the       *)
(* search for the input are single steps with a free outcome.              *)
(***************************************************************************)
\* message_button_selectors (instagram_dm_sender.py) and message_selectors
IgMessageSelectors(w) ==
  CASE w = "search" -> 1..6
    [] w = "profile" -> 1..5
    [] w = "bridge" -> 1..2

\* send_button_selectors (instagram_dm_sender.py) and send_selectors
IgSendSelectors(w) ==
  CASE w = "search" -> 1..3
    [] w = "profile" -> 1..4
    [] w = "bridge" -> 1..2

\* the value returned for success or failure
IgResult(w, ok) ==
  IF w = "bridge" THEN (IF ok THEN "success" ELSE "failure")
  ELSE (IF ok THEN "True" ELSE "False")

IgReturns(g, ok) ==
  [g EXCEPT !.at = "done", !.ret = IgResult(g.workflow, ok)]

\* the loop goes on after a click that opened the dialog
IgMessageBreaksNever(w, r) == FALSE

\* The "break" of the message-button loop: the search workflow leaves the
\* loop after any click, the other two only when the dialog is open after
\* the click.
IgMessageBreaks(w, r) ==
  IF w = "search" THEN r \in {"clicked_closed", "clicked_opened"}
  ELSE r = "clicked_opened"

\* send_dm is called
IgBegin(w) ==
  /\ igdm.at \in {"idle", "done"}
  /\ igdm' = [NoSend EXCEPT !.at = "open", !.workflow = w]
  /\ UNCHANGED <<limiterVars, flowVars, gateway, thread, twop>>

\* the username / session test, the browser and the steps up to the
\* message button
IgOpen(r) ==
  /\ igdm.at = "open"
  /\ igdm' = IF r = "ok" THEN [igdm EXCEPT !.at = "message_loop", !.i = 1]
             ELSE IgReturns(igdm, FALSE)
  /\ UNCHANGED <<limiterVars, flowVars, gateway, thread, twop>>

\* one candidate of the message-button list
IgMessageCandidate(r) ==
  /\ igdm.at = "message_loop"
  /\ LET w == igdm.workflow
         clicked == r \in {"clicked_closed", "clicked_opened"}
         g == [igdm EXCEPT
                 !.i = @ + 1,
                 !.message_opened = @ \/ (w # "search" /\ r = "clicked_opened"),
                 !.msg_clicks =
                    IF clicked
                    THEN Append(@, [cand |-> igdm.i,
                                    opened |-> (r = "clicked_opened")])
                    ELSE @]
     IN igdm' =
          IF IgMessageBreaks(w, r)
             \/ igdm.i >= Cardinality(IgMessageSelectors(w))
          THEN CASE w = "search" -> [g EXCEPT !.at = "surface", !.i = 1]
                 [] w = "profile" ->
                      [g EXCEPT !.i = 1,
                                !.at = IF g.message_opened THEN "input"
                                       ELSE "healer"]
                 [] w = "bridge" ->
                      IF g.message_opened
                      THEN [g EXCEPT !.at = "input", !.i = 1]
                      ELSE IgReturns(g, FALSE)
          ELSE g
  /\ UNCHANGED <<limiterVars, flowVars, gateway, thread, twop>>

\* profile workflow, "if not message_opened": the AI healer, when there is
\* one, clicks what it suggests
IgHealer(r) ==
  /\ igdm.at = "healer"
  /\ igdm' = IF r = "clicked"
             THEN [igdm EXCEPT !.at = "input", !.message_opened = TRUE]
             ELSE IgReturns(igdm, FALSE)
  /\ UNCHANGED <<limiterVars, flowVars, gateway, thread, twop>>

\* search workflow, steps 5 and 6: the /direct/new/ fallbacks
IgSurface(ok) ==
  /\ igdm.at = "surface"
  /\ igdm' = IF ok THEN [igdm EXCEPT !.at = "input"]
             ELSE IgReturns(igdm, FALSE)
  /\ UNCHANGED <<limiterVars, flowVars, gateway, thread, twop>>

\* the search for the message input, and typing the message into it
IgInput(r) ==
  /\ igdm.at = "input"
  /\ igdm' = IF r = "typed" THEN [igdm EXCEPT !.at = "send_loop", !.i = 1]
             ELSE IgReturns(igdm, FALSE)
  /\ UNCHANGED <<limiterVars, flowVars, gateway, thread, twop>>

\* One candidate of the send list.  The search workflow assigns the element
\* to send_button before it tests is_disabled(), and keeps it when a later
\* candidate throws; the other two set "sent" after a click.
IgSendCandidate(r) ==
  /\ igdm.at = "send_loop"
  /\ LET w == igdm.workflow
         g == [igdm EXCEPT
                 !.i = @ + 1,
                 !.send_button = IF w = "search" /\ r # "throws"
                                 THEN <<igdm.i>> ELSE @,
                 !.sent = @ \/ (w # "search" /\ r = "clicked"),
                 !.send_clicks = IF r = "clicked" THEN Append(@, igdm.i)
                                 ELSE @]
     IN igdm' =
          IF r = "clicked" \/ igdm.i >= Cardinality(IgSendSelectors(w))
          THEN IF w = "search" THEN [g EXCEPT !.at = "return"]
               ELSE IF g.sent THEN [g EXCEPT !.at = "return"]
               ELSE [g EXCEPT !.at = "press_enter"]
          ELSE g
  /\ UNCHANGED <<limiterVars, flowVars, gateway, thread, twop>>

\* profile and bridge: "if not sent: message_input.press('Enter')"
IgPressEnter(ok) ==
  /\ igdm.at = "press_enter"
  /\ igdm' = [igdm EXCEPT !.at = "return", !.sent = ok, !.enter = ok]
  /\ UNCHANGED <<limiterVars, flowVars, gateway, thread, twop>>

\* the last statements: "if not send_button: return False" and "return
\* True" in the search workflow, "if sent" in the other two
IgReturn ==
  /\ igdm.at = "return"
  /\ igdm' = IF igdm.workflow = "search"
             THEN IgReturns(igdm, igdm.send_button # <<>>)
             ELSE IgReturns(igdm, igdm.sent)
  /\ UNCHANGED <<limiterVars, flowVars, gateway, thread, twop>>

NextInstagram ==
  \/ \E w \in Workflows : IgBegin(w)
  \/ \E r \in {"returns_false", "throws", "ok"} : IgOpen(r)
  \/ \E r \in MessageResults : IgMessageCandidate(r)
  \/ \E r \in {"unavailable", "failed", "clicked"} : IgHealer(r)
  \/ \E ok \in BOOLEAN : IgSurface(ok)
  \/ \E r \in {"none", "throws", "typed"} : IgInput(r)
  \/ \E r \in SendResults : IgSendCandidate(r)
  \/ \E ok \in BOOLEAN : IgPressEnter(ok)
  \/ IgReturn

SpecInstagram == Init /\ [][NextInstagram]_vars

TypeOK ==
  /\ clock \in Nat
  /\ \A p \in Senders :
       /\ pc[p] \in {"idle", "rest_sleep", "flow", "sent", "delay"}
       /\ browser[p] \in {"none", "partial", "ready"}
       /\ messages_sent_this_session[p] \in Nat
       /\ call[p].ret \in {"none", "True", "False", "raised"}
(***************************************************************************)
(* Properties                                                              *)
(***************************************************************************)
Idle(p) == pc[p] = "idle"
\* the session count calls for a rest; the hour is inside the window
RestDue(n) == n > 0 /\ n % REST_AFTER_N_MESSAGES = 0
InWindow(t) == \E h \in WORK_HOURS[1]..(WORK_HOURS[2] - 1) : t % 24 = h
Checked(p) == chk[p] # <<>>
LastCheck(p) == chk[p][1]

\* the cooldown, work-hour and cap gates were open at the last check of p
CooldownGateOpen(k) == k.cd = <<>> \/ k.at >= k.cd[1] + COOLDOWN_HOURS
CapsOpen(k) == k.nh < MAX_DM_PER_HOUR /\ k.nd < MAX_DM_PER_DAY
EarlierGatesOpen(k) ==
  CooldownGateOpen(k) /\ InWindow(k.at) /\ CapsOpen(k)

\* number of recorded sends in the hour (day) that ends at time t
SendsWithin(t, span) ==
  Cardinality({i \in DOMAIN sent : sent[i] > t - span /\ sent[i] <= t})

\* C1: with two senders on one state file, the sends recorded within any
\* trailing hour never exceed MAX_DM_PER_HOUR, and those within any
\* trailing 24 hours never exceed MAX_DM_PER_DAY.
C1_SharedFileCaps ==
  \A i \in DOMAIN sent :
    /\ SendsWithin(sent[i], OneHour) <= MAX_DM_PER_HOUR
    /\ SendsWithin(sent[i], OneDay) <= MAX_DM_PER_DAY

\* C2: a check that finds MAX_DM_PER_HOUR sends within the past hour denies
\* with the hourly reason, and once more than an hour has passed since the
\* oldest of those sends a check on the same instance allows again (read
\* with the cooldown and work-hour gates open).
C2_HourlyCapThenAllowed ==
  \A p \in Senders :
    Checked(p) /\ CooldownGateOpen(LastCheck(p))
               /\ InWindow(LastCheck(p).at) =>
      /\ LastCheck(p).nh >= MAX_DM_PER_HOUR =>
           ~LastCheck(p).allowed /\ LastCheck(p).reason = "hourly"
      /\ hist[p].capAt # <<>>
           /\ LastCheck(p).at > hist[p].capAt[1] + OneHour =>
           LastCheck(p).allowed

\* C3: a sender that is resting leaves the rest: a check made after a
\* completed rest sleep, with no other gate denying, allows.
C3_RestEnds ==
  \A p \in Senders :
    Checked(p) /\ RestDue(LastCheck(p).session) /\ LastCheck(p).rested
               /\ EarlierGatesOpen(LastCheck(p)) =>
      LastCheck(p).allowed

\* C4 as stated: when the session send count is a positive multiple of
\* REST_AFTER_N_MESSAGES, the next check denies with the resting reason and
\* no other reason.
C4_RestReasonAlways ==
  \A p \in Senders :
    Checked(p) /\ RestDue(LastCheck(p).session) =>
      ~LastCheck(p).allowed /\ LastCheck(p).reason = "rest"

\* C4 amended: when the session send count is a positive multiple of
\* REST_AFTER_N_MESSAGES, the next check denies; its reason is the resting
\* reason exactly when the cooldown, work-hour, hourly and daily gates,
\* which are tested first, do not deny.
C4_RestDenies ==
  \A p \in Senders :
    Checked(p) /\ RestDue(LastCheck(p).session) =>
      /\ ~LastCheck(p).allowed
      /\ LastCheck(p).reason = "rest" <=> EarlierGatesOpen(LastCheck(p))

C4_Witness ==
  \E p \in Senders :
    /\ Checked(p) /\ RestDue(LastCheck(p).session)
    /\ LastCheck(p).reason = "rest"
    /\ call[p].ret = "False"

\* C5 as stated: after _enter_cooldown a check denies, giving the remaining
\* hours, at every time before last_cooldown + COOLDOWN_HOURS, and allows
\* once that time is reached.
C5_CooldownThenAllowed ==
  \A p \in Senders :
    Checked(p) /\ LastCheck(p).cd # <<>> =>
      IF LastCheck(p).at < LastCheck(p).cd[1] + COOLDOWN_HOURS
      THEN /\ ~LastCheck(p).allowed
           /\ LastCheck(p).reason = "cooldown"
           /\ LastCheck(p).remaining =
                LastCheck(p).cd[1] + COOLDOWN_HOURS - LastCheck(p).at
      ELSE LastCheck(p).allowed

\* C5 amended: after _enter_cooldown a check denies, giving the remaining
\* hours, at every time before last_cooldown + COOLDOWN_HOURS; from that
\* time on the cooldown no longer denies, without any reset, and the check
\* allows exactly when the hour is within WORK_HOURS, the hourly and daily
\* counts are below their caps and the sender is not resting.
C5_CooldownLockout ==
  \A p \in Senders :
    Checked(p) /\ LastCheck(p).cd # <<>> =>
      IF LastCheck(p).at < LastCheck(p).cd[1] + COOLDOWN_HOURS
      THEN /\ ~LastCheck(p).allowed
           /\ LastCheck(p).reason = "cooldown"
           /\ LastCheck(p).remaining =
                LastCheck(p).cd[1] + COOLDOWN_HOURS - LastCheck(p).at
      ELSE /\ LastCheck(p).reason # "cooldown"
           /\ LastCheck(p).allowed <=>
                /\ InWindow(LastCheck(p).at)
                /\ CapsOpen(LastCheck(p))
                /\ ~RestDue(LastCheck(p).session)

\* a check made exactly when the cooldown ends, and allowed
C5_Witness ==
  \E p \in Senders :
    /\ Checked(p) /\ LastCheck(p).cd # <<>>
    /\ LastCheck(p).at = LastCheck(p).cd[1] + COOLDOWN_HOURS
    /\ LastCheck(p).allowed
    /\ hist[p].cdAt = LastCheck(p).cd

\* the check of the running instance, and of a fresh instance constructed
\* from the state the running instance persists
CheckNow(p) ==
  CheckRateLimits(rate_limits[p], messages_sent_this_session[p], clock)
CheckReloaded(p) ==
  CheckRateLimits(LoadRateLimits(SaveRateLimits(rate_limits[p])), 0, clock)

C8_RecordSend ==
  [][\A p \in Senders :
       call'[p].recs = call[p].recs + 1 =>
         /\ rate_limits'[p].hourly_messages =
              Append(rate_limits[p].hourly_messages, clock)
         /\ rate_limits'[p].daily_messages =
              Append(rate_limits[p].daily_messages, clock)
         /\ rate_limits'[p].total_sent = rate_limits[p].total_sent + 1
         /\ rate_limits'[p].last_cooldown = rate_limits[p].last_cooldown
         /\ messages_sent_this_session'[p] =
              messages_sent_this_session[p] + 1
         /\ file' = <<rate_limits'[p]>>]_vars

\* a second send has just been recorded, after the first one was pruned
\* from the hourly list
C8_Witness ==
  \E p \in Senders :
    /\ pc[p] = "delay" /\ call[p].recs = 1
    /\ file = <<rate_limits[p]>>
    /\ Len(rate_limits[p].daily_messages) = 2
    /\ Len(rate_limits[p].hourly_messages) = 1
    /\ rate_limits[p].hourly_messages[1] = clock

\* C9: a detected violation makes send_dm enter the cooldown and return
\* False at once, with no record and nothing further done in the call; and
\* a call gets past the permission check only if the cooldown this instance
\* entered has run its COOLDOWN_HOURS.
C9_ViolationAborts ==
  \A p \in Senders :
    /\ call[p].violation =>
         /\ Idle(p) /\ call[p].ret = "False"
         /\ call[p].cds = 1 /\ call[p].recs = 0
         /\ hist[p].cdAt # <<>>
         /\ rate_limits[p].last_cooldown = hist[p].cdAt
         /\ file = SaveRateLimits(rate_limits[p])
    /\ pc[p] \in {"flow", "sent", "delay"} /\ hist[p].cdAt # <<>> =>
         LastCheck(p).at >= hist[p].cdAt[1] + COOLDOWN_HOURS

\* a later call of the same instance was denied while the cooldown ran
C9_Witness ==
  \E p \in Senders :
    /\ hist[p].cdAt # <<>> /\ Checked(p) /\ Idle(p)
    /\ LastCheck(p).at > hist[p].cdAt[1]
    /\ LastCheck(p).reason = "cooldown"
    /\ call[p].ret = "False" /\ ~call[p].violation

\* C10: a send whose verification observed no signal is reported as an
\* outcome of its own, not as success.
C10_UnverifiedDistinct ==
  \A p \in Senders :
    call[p].verdict = "Unverified" => call[p].ret # "True"

\* the steps taken so far in the running operation include step e
Took(e) == \E k \in DOMAIN trace : trace[k] = e

\* C11: the verification is an OR over its signals: the outcome is Verified
\* exactly when the input was seen cleared or the text was seen on the
\* page; a signal whose evaluation threw counts as not seen, the other
\* signal is still evaluated, and the exception goes no further: the
\* handler of send_dm is not entered and the call returns as for a send.
C11_VerifyAnySignal ==
  wf.op = "send_dm" =>
    /\ wf.verdict # "none" =>
         /\ wf.verdict = "Verified" <=>
              (wf.cleared = "observed" \/ wf.found = "observed")
         /\ wf.cleared # "observed" => wf.found \in Signals
         /\ wf.ret = "True"
    /\ wf.cleared = "threw" \/ wf.found = "threw" =>
         /\ ~Took("except")
         /\ wf.at \in {"signal_found", "record", "done"}
         /\ wf.at = "done" => wf.ret = "True"

\* the first signal threw, the second was seen
C11_Witness ==
  /\ wf.op = "send_dm" /\ wf.at = "done"
  /\ wf.cleared = "threw" /\ wf.found = "observed"
  /\ wf.verdict = "Verified" /\ wf.ret = "True"

\* the candidate list of the loop the history is about
SelectorsTried ==
  CASE wf.loop = "follow_loop" -> follow_selectors
    [] wf.loop = "message_loop" -> message_selectors
    [] wf.loop = "reclick_loop" -> message_selectors
    [] wf.loop = "input_loop" -> input_selectors
    [] wf.loop = "send_loop" -> send_selectors
    [] wf.loop = "click_loop" /\ wf.op = "like_video" -> like_selectors
    [] OTHER -> follow_selectors_bridge
\* that loop is still running / has been left
InLoop == wf.at = wf.loop
\* the loops that click the first visible candidate: the message button of
\* send_dm, the like and follow buttons of the bridge
ClickLoop == wf.loop \in {"message_loop", "click_loop"}
ResolvedVisible(k) == wf.tried[k].result \in {"clicked", "click_throws"}

\* C12 as stated: the candidates are tried in list order; a candidate that
\* resolves to a visible element gets the action exactly once and no later
\* candidate is tried; a candidate that throws does not end the loop.
C12_FirstResolvedOnly ==
  ClickLoop =>
    \A k \in DOMAIN wf.tried :
      /\ wf.tried[k].cand = k
      /\ ResolvedVisible(k) => wf.clicks = <<k>> /\ Len(wf.tried) = k
      /\ ~ResolvedVisible(k) /\ k < Cardinality(SelectorsTried) =>
           Len(wf.tried) > k \/ InLoop

\* C12 amended: the candidates are tried in list order; a candidate that
\* resolves to a visible element and whose click returns gets the action
\* exactly once, ends the loop, and no later candidate is tried; a
\* candidate that throws or times out, also one whose click throws, does
\* not end the loop: the next candidate is tried, and nothing is recorded
\* as clicked for it.
C12_FirstClickedOnly ==
  ClickLoop =>
    /\ \A k \in DOMAIN wf.tried :
         /\ wf.tried[k].cand = k
         /\ wf.tried[k].result = "clicked" =>
              wf.clicks = <<k>> /\ Len(wf.tried) = k /\ ~InLoop
         /\ wf.tried[k].result # "clicked"
              /\ k < Cardinality(SelectorsTried) =>
              Len(wf.tried) > k \/ InLoop
    /\ (\A k \in DOMAIN wf.tried : wf.tried[k].result # "clicked") =>
         wf.clicks = <<>>

\* of the message buttons the first timed out and the second was clicked
C12_Witness ==
  /\ wf.loop = "message_loop" /\ ~InLoop
  /\ Len(wf.tried) = 2
  /\ wf.tried[1].result = "throws" /\ wf.tried[2].result = "clicked"
  /\ wf.clicks = <<2>> /\ wf.message_opened

\* the loop was left after every candidate failed to resolve: it threw,
\* timed out or was not visible
AllUnresolved ==
  /\ ~InLoop /\ Len(wf.tried) = Cardinality(SelectorsTried)
  /\ \A k \in DOMAIN wf.tried : wf.tried[k].result \in {"throws", "hidden"}
Failed == wf.at = "done" /\ wf.ret \in {"failure", "False"}

C14_FirstVisibleWins ==
  wf.filled # <<>> =>
    /\ wf.filled[1].visible
    /\ wf.loop = "input_loop" =>
         /\ wf.tried[wf.filled[1].cand].result = "visible"
         /\ \A j \in 1..(wf.filled[1].cand - 1) :
              wf.tried[j].result # "visible"

\* the timestamps of list younger than span at time t, in their order
Fresh(list, t, span) ==
  LET RECURSIVE keep(_)
      keep(n) == IF n = 0 THEN <<>>
                 ELSE IF list[n] > t - span
                 THEN Append(keep(n - 1), list[n])
                 ELSE keep(n - 1)
  IN keep(Len(list))
NoneExpired(list, t, span) == \A i \in DOMAIN list : list[i] > t - span

\* C15 as stated: after any call of _check_rate_limits, whatever it
\* answered, the hourly list holds no timestamp older than one hour and the
\* daily list none older than 24 hours (as of the time of the call).
C15_PrunedAfterAnyCheck ==
  \A p \in Senders :
    Checked(p) =>
      /\ NoneExpired(rate_limits[p].hourly_messages, LastCheck(p).at, OneHour)
      /\ NoneExpired(rate_limits[p].daily_messages, LastCheck(p).at, OneDay)

\* C15 amended: a call of _check_rate_limits that gets past the cooldown
\* and work-hour gates leaves in the hourly list exactly its timestamps
\* younger than one hour and in the daily list exactly those younger than
\* 24 hours, whatever it then answers; a call denied by the cooldown or by
\* the work hours returns before the pruning and leaves both lists as they
\* were.
C15_PrunedPastGates ==
  [][\A p \in Senders :
       chk'[p] # chk[p] /\ chk'[p] # <<>> =>
         IF chk'[p][1].reason \in {"cooldown", "work_hours"}
         THEN rate_limits'[p] = rate_limits[p]
         ELSE /\ rate_limits'[p].hourly_messages =
                   Fresh(rate_limits[p].hourly_messages, clock, OneHour)
              /\ rate_limits'[p].daily_messages =
                   Fresh(rate_limits[p].daily_messages, clock, OneDay)
              /\ NoneExpired(rate_limits'[p].hourly_messages, clock, OneHour)
              /\ NoneExpired(rate_limits'[p].daily_messages, clock, OneDay)
              /\ rate_limits'[p].total_sent = rate_limits[p].total_sent
              /\ rate_limits'[p].last_cooldown =
                   rate_limits[p].last_cooldown]_vars

\* a check on the next day has emptied the daily list of a sender with
\* recorded sends, and allowed
C15_Witness ==
  \E p \in Senders :
    /\ Checked(p) /\ LastCheck(p).allowed /\ pc[p] = "flow"
    /\ LastCheck(p).at >= StartClock + OneDay
    /\ rate_limits[p].total_sent >= MAX_DM_PER_DAY
    /\ rate_limits[p].daily_messages = <<>>

ClosedHours == {h \in 0..(OneDay - 1) : ~InWindow(h)}

\* C17: a check made at an hour outside WORK_HOURS denies, whatever the
\* lists and the session count hold (for the state of every sender and
\* every closed hour of the day), and a send_dm call whose check was made
\* outside the window gets no further: it returns False, nothing is sent
\* or recorded.
C17_OutsideHoursDenied ==
  \A p \in Senders :
    /\ \A h \in ClosedHours :
         ~CheckRateLimits(rate_limits[p],
                          messages_sent_this_session[p], h).allowed
    /\ Checked(p) /\ ~InWindow(LastCheck(p).at) =>
         /\ ~LastCheck(p).allowed
         /\ LastCheck(p).reason \in {"cooldown", "work_hours"}
         /\ call[p].checks = 1 =>
              /\ Idle(p) /\ call[p].ret = "False"
              /\ call[p].recs = 0 /\ call[p].cds = 0

\* a call at the closing hour, with empty lists and no cooldown, was denied
C17_Witness ==
  \E p \in Senders :
    /\ Checked(p) /\ LastCheck(p).at % 24 = WORK_HOURS[2]
    /\ LastCheck(p).reason = "work_hours"
    /\ LastCheck(p).nh = 0 /\ LastCheck(p).session = 0
    /\ LastCheck(p).cd = <<>>
    /\ call[p].checks = 1 /\ call[p].ret = "False" /\ Idle(p)

\* what a denied call must leave alone
SkipFrame(p) ==
  /\ browser'[p] = browser[p]
  /\ file' = file
  /\ rate_limits'[p].total_sent = rate_limits[p].total_sent
  /\ rate_limits'[p].last_cooldown = rate_limits[p].last_cooldown
  /\ messages_sent_this_session'[p] = messages_sent_this_session[p]
  /\ sent' = sent

\* C18: a send_dm call whose permission check denies checks once, opens no
\* browser, touches no page, records nothing and enters no cooldown; it
\* returns False, at once or after the rest sleep, and total_sent,
\* last_cooldown, the session count and the state file are as before.
C18_DeniedIsSkip ==
  [][\A p \in Senders :
       /\ pc[p] = "idle" /\ call'[p].checks = 1 /\ chk'[p] # <<>>
            /\ (chk'[p] # chk[p] \/ call'[p] # call[p])
            /\ ~chk'[p][1].allowed =>
            /\ SkipFrame(p)
            /\ pc'[p] \in {"idle", "rest_sleep"}
            /\ pc'[p] = "rest_sleep" <=> chk'[p][1].reason = "rest"
            /\ pc'[p] = "idle" => call'[p].ret = "False"
            /\ call'[p].recs = 0 /\ call'[p].cds = 0
       /\ pc[p] = "rest_sleep" /\ pc'[p] # "rest_sleep"
            /\ restarts' = restarts =>
            /\ SkipFrame(p)
            /\ rate_limits'[p] = rate_limits[p]
            /\ chk'[p] = chk[p]
            /\ pc'[p] = "idle" /\ call'[p].ret = "False"
            /\ call'[p].checks = 1
            /\ call'[p].recs = 0 /\ call'[p].cds = 0]_vars

\* a restarted sender was denied for the hourly cap and returned False: it
\* has no browser, and the file is as the earlier sends left it
C18_Witness ==
  \E p \in Senders :
    /\ Checked(p) /\ LastCheck(p).reason = "hourly"
    /\ Idle(p) /\ call[p].checks = 1 /\ call[p].ret = "False"
    /\ call[p].recs = 0 /\ browser[p] = "none"
    /\ rate_limits[p].total_sent >= MAX_DM_PER_HOUR
    /\ file = SaveRateLimits(rate_limits[p])

\* C19: the total_sent of the state file always equals the number of
\* _record_message_sent calls made so far by any sender (so it never
\* decreases), also with two senders writing the same file.
C19_TotalSentCounts ==
  file # <<>> => file[1].total_sent = Len(sent)

\* The steps of send_dm as the claim numbers them; the repairs of step 4
\* (Escape, the wait, the second click on the message button) belong to
\* locating the input.  10: the call ends here (handler, cooldown).
StepRank(e) ==
  CASE e = "check" -> 1
    [] e = "goto_profile" -> 2
    [] e = "click_follow" -> 3
    [] e \in {"click_message", "goto_messages", "fill_search",
              "click_result"} -> 4
    [] e \in {"locate_input", "press_escape", "wait_idle",
              "reclick_message"} -> 5
    [] e = "fill_input" -> 6
    [] e \in {"click_send", "press_enter"} -> 7
    [] e \in {"violation_check", "signal_cleared", "signal_found"} -> 8
    [] e = "record" -> 9
    [] OTHER -> 10
TookBefore(j, es) == \E i \in 1..(j - 1) : trace[i] \in es
Times(e) == Cardinality({k \in DOMAIN trace : trace[k] = e})

C21_CommentReachesOperation ==
  (/\ gateway.endpoint = "videos/comment"
   /\ gateway.at \in {"relay", "done"}
   /\ gateway.forwarded # <<>>
   /\ gateway.body[1].video_url # ""
   /\ gateway.body[1].comment_text # "")
  => /\ gateway.bridge_status # 400
     /\ gateway.operation # <<>>
     /\ gateway.operation[1].name = "comment_on_video"
     /\ gateway.operation[1].args[1] = gateway.body[1].video_url
     /\ gateway.operation[1].args[2] = gateway.body[1].comment_text

\* C22: a gateway request whose bridge answer has a status S other than 200
\* is answered with S; one whose bridge cannot be reached is answered with
\* 503; 500 is answered only when the bridge said 500 or something
\* unexpected happened.
C22_ErrorRelay ==
  gateway.at = "done" =>
    /\ gateway.bridge_status \notin {0, 200} =>
         gateway.status = gateway.bridge_status
    /\ gateway.raised = "RequestError" => gateway.status = 503
    /\ gateway.status = 500 => gateway.bridge_status \notin {200, 400}

\* C23: in one run of post_tweets_task the first tweet created is posted
\* without a reply target and every later call of post_single_tweet gets the
\* id of the tweet created last; the reply target is never the placeholder
\* "unknown"; the returned tweet_ids are the ids of the created tweets in
\* posting order.
C23_RepliesChain ==
  /\ \A k \in DOMAIN thread.posts :
       LET earlier == Created(SubSeq(thread.posts, 1, k - 1))
       IN /\ earlier = <<>> => thread.posts[k].reply_to = <<>>
          /\ earlier # <<>> =>
               thread.posts[k].reply_to = <<earlier[Len(earlier)].id>>
          /\ thread.posts[k].reply_to # <<"unknown">>
  /\ Len(thread.tweet_ids) = Len(Created(thread.posts))
  /\ \A j \in DOMAIN thread.tweet_ids :
       thread.tweet_ids[j] = Created(thread.posts)[j].id

\* C24: the search workflow of InstagramDMSender.send_dm returns True only
\* if in that call the click on a send button that resolved and was not
\* disabled was performed.
C24_TrueOnlyAfterClick ==
  (igdm.workflow = "search" /\ igdm.at = "done" /\ igdm.ret = "True")
  => igdm.send_clicks # <<>>

\* C25 as stated: at most one message-button candidate is clicked in one
\* send_dm call of the Instagram DM workflows.
C25_OneMessageClick == Len(igdm.msg_clicks) <= 1

\* C25: the message-button candidates are clicked in list order, each at
\* most once, and none is clicked after a click that left the message dialog
\* open (profile workflow and bridge) or after any click (search workflow).
C25_ClickUntilOpened ==
  /\ \A k \in 1..(Len(igdm.msg_clicks) - 1) :
       /\ igdm.msg_clicks[k].cand < igdm.msg_clicks[k + 1].cand
       /\ ~igdm.msg_clicks[k].opened
  /\ igdm.workflow = "search" => Len(igdm.msg_clicks) <= 1
  /\ igdm.workflow = "bridge" /\ igdm.message_opened =>
       /\ igdm.msg_clicks # <<>>
       /\ igdm.msg_clicks[Len(igdm.msg_clicks)].opened

\* the profile workflow clicked two candidates: the first left the dialog
\* closed, the second opened it, and no further candidate was clicked
C25_Witness ==
  /\ igdm.workflow = "profile" /\ igdm.at = "done"
  /\ Len(igdm.msg_clicks) = 2
  /\ ~igdm.msg_clicks[1].opened /\ igdm.msg_clicks[2].opened
  /\ igdm.msg_clicks[2].cand < Cardinality(IgMessageSelectors("profile"))

\* C30: when a TwitterOperations operation has returned or raised and had
\* started a Playwright instance, the instance is stopped and no browser
\* context is left open.
C30_Released ==
  (twop.at = "done" /\ twop.playwright # "none")
  => twop.playwright = "stopped" /\ twop.context # "open"

NoInputAbort ==
  /\ wf.op = "send_dm" /\ wf.at = "done" /\ wf.ret = "False"
  /\ trace # <<>> /\ StepRank(trace[Len(trace)]) = 5
  /\ wf.loop = "input_loop" /\ wf.message_input = <<>>

C27_OneSendCountedOnce ==
  [][(pc[Solo] = "sent" /\ pc'[Solo] # "sent" /\ ~call'[Solo].violation)
     => /\ Len(rate_limits'[Solo].hourly_messages)
             = Len(rate_limits[Solo].hourly_messages) + 1
        /\ Len(rate_limits'[Solo].daily_messages)
             = Len(rate_limits[Solo].daily_messages) + 1
        /\ rate_limits'[Solo].total_sent = rate_limits[Solo].total_sent + 1
        /\ messages_sent_this_session'[Solo]
             = messages_sent_this_session[Solo] + 1]_vars

\* _enter_cooldown is called in this step
EntersCooldown == call'[Solo].cds > call[Solo].cds

\* C28: a step in which _enter_cooldown is called sets last_cooldown to the
\* current time, in memory and in the file, and leaves the hourly list, the
\* daily list, total_sent and the session count as they were; when it is
\* called after a performed send, that send is not recorded.
C28_CooldownOnlyStart ==
  [][EntersCooldown =>
       /\ rate_limits'[Solo].last_cooldown = <<clock>>
       /\ file' # <<>> /\ file'[1].last_cooldown = <<clock>>
       /\ rate_limits'[Solo].hourly_messages
            = rate_limits[Solo].hourly_messages
       /\ rate_limits'[Solo].daily_messages
            = rate_limits[Solo].daily_messages
       /\ rate_limits'[Solo].total_sent = rate_limits[Solo].total_sent
       /\ messages_sent_this_session' = messages_sent_this_session
       /\ call'[Solo].recs = call[Solo].recs
       /\ sent' = sent
       /\ call'[Solo].ret = "False"]_vars

\* the cooldown was entered in a call made after two recorded sends, which
\* are still in the lists
C28_Witness ==
  /\ Idle(Solo) /\ call[Solo].cds = 1 /\ call[Solo].recs = 0
  /\ rate_limits[Solo].last_cooldown = <<clock>>
  /\ Len(rate_limits[Solo].hourly_messages) = 2
  /\ rate_limits[Solo].total_sent = 2
  /\ messages_sent_this_session[Solo] = 2

\* C29: whenever _enter_cooldown is called, the permission check of the same
\* send_dm call had allowed the call and had found no cooldown or an elapsed
\* one, and the cooldown replaced is not running any more: a running
\* cooldown's end is never moved.
C29_NoCooldownRestart ==
  [][EntersCooldown =>
       /\ Checked(Solo)
       /\ LastCheck(Solo).allowed
       /\ CooldownGateOpen(LastCheck(Solo))
       /\ LastCheck(Solo).cd = rate_limits[Solo].last_cooldown
       /\ \/ rate_limits[Solo].last_cooldown = <<>>
          \/ clock >= rate_limits[Solo].last_cooldown[1] + COOLDOWN_HOURS]_vars

\* a second cooldown was entered, in a call whose check had found the first
\* one elapsed
C29_Witness ==
  /\ Idle(Solo) /\ call[Solo].cds = 1
  /\ rate_limits[Solo].last_cooldown = <<clock>>
  /\ Checked(Solo) /\ LastCheck(Solo).cd # <<>>
  /\ LastCheck(Solo).cd[1] + COOLDOWN_HOURS <= clock

====
